---- MODULE Spec2Model ----
(***************************************************************************)
(* Model of the WeChat content-verification bot (src/main.py).             *)
(*                                                                         *)
(* One POST callback is handled by handle_wechat -> process_message ->     *)
(* extract_content -> fetch_web_content -> analyze_content ->              *)
(* generate_reply.  Text is modelled as a sequence of one-character        *)
(* strings, so that the regular-expression clean-up of generate_reply and  *)
(* the strict JSON parse that follows it are computed, not assumed.        *)
(***************************************************************************)
EXTENDS Integers, Sequences, FiniteSets, TLC

VARIABLES
    pc,            \* position of the handler within the current request
    request,       \* the callback as received: method and parsed envelope
    msg,           \* result of parse_message (main.py:89)
    url,           \* URL handed to fetch_web_content
    page,          \* what http.get returned for url
    strategy,      \* which extraction branch produced content
    content,       \* value of `content` in process_message
    analysis,      \* value of `analysis` in process_message
    data,          \* value of `data` in generate_reply after json.loads
    reply,         \* what the handler returns
    failed,        \* the stage that failed in this request, "none" if none
    fetchCalls,    \* invocations of fetch_web_content in this request
    analyzeCalls,  \* invocations of analyze_content in this request
    escaped        \* an exception left handle_wechat

vars == <<pc, request, msg, url, page, strategy, content, analysis, data,
          reply, failed, fetchCalls, analyzeCalls, escaped>>

(***************************************************************************)
(* Text.                                                                   *)
(***************************************************************************)

\* A string literal as a sequence of its characters.
Chars(s) == [i \in 1..Len(s) |-> SubSeq(s, i, i)]

\* The character U+0060, which a TLA+ string literal cannot hold.
BT == "<backtick>"

Fence == <<BT, BT, BT>>

DQ == "\""

SQ == "'"

BS == "\\"

\* Characters matched by \s and removed by str.strip().
Whitespace == {" ", "\n", "\t", "\r"}

\* Characters of the model's alphabet in the range \x00-\x1F.
ControlChars == {"\n", "\t", "\r"}

Digits == {"0", "1", "2", "3", "4", "5", "6", "7", "8", "9"}

DigitVal(c) ==
    CASE c = "0" -> 0 [] c = "1" -> 1 [] c = "2" -> 2 [] c = "3" -> 3
      [] c = "4" -> 4 [] c = "5" -> 5 [] c = "6" -> 6 [] c = "7" -> 7
      [] c = "8" -> 8 [] c = "9" -> 9

DigitChar(n) ==
    CASE n = 0 -> "0" [] n = 1 -> "1" [] n = 2 -> "2" [] n = 3 -> "3"
      [] n = 4 -> "4" [] n = 5 -> "5" [] n = 6 -> "6" [] n = 7 -> "7"
      [] n = 8 -> "8" [] n = 9 -> "9"

Min(a, b) == IF a <= b THEN a ELSE b

\* s[from:] in Python terms, with 1-based `from`.
Drop(s, from) == SubSeq(s, from, Len(s))

\* s[i:i+len(p)] == p, 1-based.
MatchAt(s, i, p) ==
    /\ i >= 1
    /\ i + Len(p) - 1 <= Len(s)
    /\ SubSeq(s, i, i + Len(p) - 1) = p

StartsWith(s, p) == MatchAt(s, 1, p)

EndsWith(s, p) == MatchAt(s, Len(s) - Len(p) + 1, p)

\* Python's `p in s` for strings.
Contains(s, p) == \E i \in 1..(Len(s) + 1) : MatchAt(s, i, p)

\* The concatenation of pieces[lo..hi], a sequence of texts.
RECURSIVE FlattenRange(_, _, _)
FlattenRange(pieces, lo, hi) ==
    IF lo > hi THEN <<>>
    ELSE IF lo = hi THEN pieces[lo]
    ELSE LET mid == (lo + hi) \div 2
         IN  FlattenRange(pieces, lo, mid) \o FlattenRange(pieces, mid + 1, hi)

Flatten(pieces) == FlattenRange(pieces, 1, Len(pieces))

\* str.join
Join(sep, parts) ==
    Flatten([i \in 1..Len(parts) |->
                IF i = 1 THEN parts[i] ELSE sep \o parts[i]])

\* Index of the first character at or after i that is in set
\* (Len(s) + 1 when there is none).
FirstIn(s, i, set) ==
    LET found == {j \in i..Len(s) : s[j] \in set}
    IN  IF found = {} THEN Len(s) + 1
        ELSE CHOOSE j \in found : \A k \in found : j <= k

\* Index of the first character at or after i that is not in set
\* (Len(s) + 1 when there is none).
FirstNotIn(s, i, set) ==
    LET found == {j \in i..Len(s) : s[j] \notin set}
    IN  IF found = {} THEN Len(s) + 1
        ELSE CHOOSE j \in found : \A k \in found : j <= k

\* str.strip()
strip(s) ==
    LET kept == {j \in 1..Len(s) : s[j] \notin Whitespace}
    IN  IF kept = {} THEN <<>>
        ELSE SubSeq(s, CHOOSE j \in kept : \A k \in kept : j <= k,
                       CHOOSE j \in kept : \A k \in kept : j >= k)

(***************************************************************************)
(* generate_reply, lines 202-208: the clean-up substitutions.              *)
(***************************************************************************)

\* re.sub(r'^```json|```$', '', cleaned): the leading fence with its language
\* tag and the trailing fence; the two matches may not overlap.
RemoveFence(s) ==
    LET lead == Fence \o Chars("json")
        a    == IF StartsWith(s, lead) THEN Drop(s, Len(lead) + 1) ELSE s
    IN  IF EndsWith(a, Fence) THEN SubSeq(a, 1, Len(a) - 3) ELSE a

\* re.sub(r"'", '"', cleaned)
SingleToDouble(s) == [i \in 1..Len(s) |-> IF s[i] = SQ THEN DQ ELSE s[i]]

\* re.sub(r'(?<!\\)"', r'\"', cleaned): every double quote that does not
\* follow a backslash gets a backslash put before it.
EscapeQuotes(s) ==
    Flatten([i \in 1..Len(s) |->
                IF s[i] = DQ /\ (i = 1 \/ s[i - 1] # BS)
                THEN <<BS, DQ>>
                ELSE <<s[i]>>])

\* Index of the first character at or after i that is not whitespace
\* (Len(s) + 1 when there is none).
SkipWs(s, i) == FirstNotIn(s, i, Whitespace)

\* The character at k lies in a match of ,\s*([}\]]) before its bracket: a
\* comma at or before k, only whitespace from there to k, and a closing
\* bracket as the first character after the whitespace that follows.
InTrailingComma(s, k) ==
    \E i \in 1..k :
        /\ s[i] = ","
        /\ \A j \in (i + 1)..k : s[j] \in Whitespace
        /\ LET e == SkipWs(s, i + 1)
           IN  e <= Len(s) /\ s[e] \in {"}", "]"} /\ k < e

\* re.sub(r',\s*([}\]])', r'\1', cleaned): each match is replaced by its
\* bracket.
FixTrailingComma(s) ==
    Flatten([k \in 1..Len(s) |->
                IF InTrailingComma(s, k) THEN <<>> ELSE <<s[k]>>])

\* re.sub(r'[\x00-\x1F]', '', cleaned)
RemoveControl(s) == SelectSeq(s, LAMBDA c : c \notin ControlChars)

\* re.sub(r'\\+', r'\\', cleaned): a run of backslashes becomes one.
CollapseBackslashes(s) ==
    Flatten([i \in 1..Len(s) |->
                IF s[i] = BS /\ i > 1 /\ s[i - 1] = BS
                THEN <<>>
                ELSE <<s[i]>>])

\* Lines 202-208 in order.
clean(raw) ==
    CollapseBackslashes(
        RemoveControl(
            FixTrailingComma(
                EscapeQuotes(
                    SingleToDouble(
                        RemoveFence(
                            strip(raw)))))))

(***************************************************************************)
(* json.loads (line 212).  JSON values are tagged records; an object is    *)
(* the sequence of its members in source order, the last member of a key   *)
(* being the one a lookup finds (as in a Python dict built by the decoder).*)
(* Exponent notation in numbers is outside the alphabet of the model's     *)
(* inputs.                                                                 *)
(***************************************************************************)

JInt(n) == [t |-> "int", v |-> n]

JFloat(n, frac) == [t |-> "float", v |-> [int |-> n, frac |-> frac]]

JNonFinite(name) == [t |-> "nonfinite", v |-> name]

JStr(s) == [t |-> "str", v |-> s]

JBool(b) == [t |-> "bool", v |-> b]

JNull == [t |-> "null", v |-> 0]

JList(items) == [t |-> "list", v |-> items]

JDict(members) == [t |-> "dict", v |-> members]

ParseFail == [ok |-> FALSE, val |-> JNull, pos |-> 0]

ParseOk(val, pos) == [ok |-> TRUE, val |-> val, pos |-> pos]

HexDigits == Digits \cup {"a", "b", "c", "d", "e", "f",
                          "A", "B", "C", "D", "E", "F"}

\* The decoder's BACKSLASH table.
Unescape(c) ==
    CASE c = DQ  -> DQ
      [] c = BS  -> BS
      [] c = "/" -> "/"
      [] c = "b" -> "<backspace>"
      [] c = "f" -> "\f"
      [] c = "n" -> "\n"
      [] c = "r" -> "\r"
      [] c = "t" -> "\t"

\* scanstring, strict: i is the index after the opening quote.
RECURSIVE ScanString(_, _, _)
ScanString(s, i, acc) ==
    IF i > Len(s) THEN ParseFail
    ELSE IF s[i] = DQ THEN ParseOk(JStr(acc), i + 1)
    ELSE IF s[i] = BS THEN
        IF i + 1 > Len(s) THEN ParseFail
        ELSE IF s[i + 1] \in {DQ, BS, "/", "b", "f", "n", "r", "t"}
             THEN ScanString(s, i + 2, Append(acc, Unescape(s[i + 1])))
        ELSE IF /\ s[i + 1] = "u"
                /\ i + 5 <= Len(s)
                /\ \A k \in 2..5 : s[i + k] \in HexDigits
             THEN ScanString(s, i + 6,
                      Append(acc, "\\u" \o s[i + 2] \o s[i + 3]
                                        \o s[i + 4] \o s[i + 5]))
        ELSE ParseFail
    ELSE IF s[i] \in ControlChars THEN ParseFail
    ELSE ScanString(s, i + 1, Append(acc, s[i]))

\* Index after the run of digits starting at i.
SkipDigits(s, i) == FirstNotIn(s, i, Digits)

\* Value of the digits s[i..j-1].
RECURSIVE DigitsValue(_, _, _, _)
DigitsValue(s, i, j, acc) ==
    IF i >= j THEN acc ELSE DigitsValue(s, i + 1, j, 10 * acc + DigitVal(s[i]))

\* NUMBER_RE: (-?(?:0|[1-9]\d*))(\.\d+)? at index i.
ParseNumber(s, i) ==
    LET neg  == i <= Len(s) /\ s[i] = "-"
        d    == IF neg THEN i + 1 ELSE i
        e    == IF d <= Len(s) /\ s[d] = "0" THEN d + 1 ELSE SkipDigits(s, d)
        n    == DigitsValue(s, d, e, 0)
        sn   == IF neg THEN 0 - n ELSE n
        f    == IF e + 1 <= Len(s) /\ s[e] = "." /\ s[e + 1] \in Digits
                THEN SkipDigits(s, e + 1) ELSE e
    IN  IF e = d THEN ParseFail
        ELSE IF f > e THEN ParseOk(JFloat(sn, SubSeq(s, e + 1, f - 1)), f)
        ELSE ParseOk(JInt(sn), e)

\* scan_once, JSONObject and JSONArray of json.decoder / json.scanner.
RECURSIVE ParseValue(_, _)
RECURSIVE ParseMembers(_, _, _)
RECURSIVE ParseElements(_, _, _)

ParseValue(s, i) ==
    IF i > Len(s) THEN ParseFail
    ELSE IF s[i] = DQ THEN ScanString(s, i + 1, <<>>)
    ELSE IF s[i] = "{" THEN
        LET j == SkipWs(s, i + 1)
        IN  IF j <= Len(s) /\ s[j] = "}" THEN ParseOk(JDict(<<>>), j + 1)
            ELSE ParseMembers(s, j, <<>>)
    ELSE IF s[i] = "[" THEN
        LET j == SkipWs(s, i + 1)
        IN  IF j <= Len(s) /\ s[j] = "]" THEN ParseOk(JList(<<>>), j + 1)
            ELSE ParseElements(s, j, <<>>)
    ELSE IF MatchAt(s, i, Chars("null")) THEN ParseOk(JNull, i + 4)
    ELSE IF MatchAt(s, i, Chars("true")) THEN ParseOk(JBool(TRUE), i + 4)
    ELSE IF MatchAt(s, i, Chars("false")) THEN ParseOk(JBool(FALSE), i + 5)
    ELSE IF s[i] \in Digits \cup {"-"} /\ ParseNumber(s, i).ok
         THEN ParseNumber(s, i)
    ELSE IF MatchAt(s, i, Chars("NaN")) THEN ParseOk(JNonFinite("NaN"), i + 3)
    ELSE IF MatchAt(s, i, Chars("Infinity"))
         THEN ParseOk(JNonFinite("Infinity"), i + 8)
    ELSE IF MatchAt(s, i, Chars("-Infinity"))
         THEN ParseOk(JNonFinite("-Infinity"), i + 9)
    ELSE ParseFail

\* j is the index where a member's key must open.
ParseMembers(s, j, acc) ==
    IF j > Len(s) \/ s[j] # DQ THEN ParseFail
    ELSE LET key == ScanString(s, j + 1, <<>>)
         IN  IF ~key.ok THEN ParseFail
             ELSE LET c == SkipWs(s, key.pos)
                  IN  IF c > Len(s) \/ s[c] # ":" THEN ParseFail
                      ELSE LET val == ParseValue(s, SkipWs(s, c + 1))
                           IN  IF ~val.ok THEN ParseFail
                               ELSE LET e    == SkipWs(s, val.pos)
                                        acc2 == Append(acc, [k |-> key.val.v,
                                                             v |-> val.val])
                                    IN  IF e > Len(s) THEN ParseFail
                                        ELSE IF s[e] = "}"
                                             THEN ParseOk(JDict(acc2), e + 1)
                                        ELSE IF s[e] = ","
                                             THEN ParseMembers(s, SkipWs(s, e + 1), acc2)
                                        ELSE ParseFail

\* j is the index where an element must start.
ParseElements(s, j, acc) ==
    LET val == ParseValue(s, j)
    IN  IF ~val.ok THEN ParseFail
        ELSE LET e    == SkipWs(s, val.pos)
                 acc2 == Append(acc, val.val)
             IN  IF e > Len(s) THEN ParseFail
                 ELSE IF s[e] = "]" THEN ParseOk(JList(acc2), e + 1)
                 ELSE IF s[e] = "," THEN ParseElements(s, SkipWs(s, e + 1), acc2)
                 ELSE ParseFail

\* json.loads: one value, whitespace around it, nothing else.
json_loads(s) ==
    LET r == ParseValue(s, SkipWs(s, 1))
    IN  IF r.ok /\ SkipWs(s, r.pos) = Len(s) + 1 THEN r ELSE ParseFail

(***************************************************************************)
(* Replies.  The fixed texts of the source are Chinese; the model keeps    *)
(* one ASCII string per source literal.                                    *)
(***************************************************************************)

\* line 56
MSG_SERVER_ERROR == "server error while processing the message"

\* line 97
MSG_NO_CONTENT == "no usable content obtained"

\* line 99
MSG_UNSUPPORTED == "message type not supported yet"

\* line 107
MSG_ANALYZE_UNAVAILABLE == "analysis service temporarily unavailable"

\* line 114
MSG_PROCESS_ERROR == "message processing failed"

\* line 237
MSG_FORMAT_ERROR == "analysis result has an abnormal format"

\* line 240
MSG_REPLY_ERROR == "error while generating the reply"

\* The message of the RuntimeError of line 163 and of line 196.
EXC_FETCH == "content fetch failed, please check the link"

EXC_ANALYZE == "analysis service request failed"

NoReply == [kind |-> "none", text |-> "", articles |-> <<>>]

\* create_reply(text).render()
TextReply(text) == [kind |-> "text", text |-> text, articles |-> <<>>]

\* create_reply([article]).render()
NewsReply(article) == [kind |-> "news", text |-> "", articles |-> <<article>>]

\* What a function call comes to: a value returned or an exception raised.
Returned(value) == [raised |-> FALSE, exc |-> "", value |-> value]

Raised(exc) == [raised |-> TRUE, exc |-> exc, value |-> NoReply]

(***************************************************************************)
(* extract_content and fetch_web_content.                                  *)
(***************************************************************************)

MaxContent == 3000

\* s[:3000]
Truncate(s) == SubSeq(s, 1, Min(Len(s), MaxContent))

\* Index after the run of non-whitespace characters starting at i.
SkipNonWs(s, i) == FirstIn(s, i, Whitespace)

\* re.search(r'https?://\S+', text): the leftmost match, <<>> when none.
url_search(text) ==
    LET schemes == {Chars("http://"), Chars("https://")}
        starts  == {i \in 1..Len(text) :
                       \E p \in schemes :
                           /\ MatchAt(text, i, p)
                           /\ i + Len(p) <= Len(text)
                           /\ text[i + Len(p)] \notin Whitespace}
    IN  IF starts = {} THEN <<>>
        ELSE LET i == CHOOSE k \in starts : \A m \in starts : k <= m
             IN  SubSeq(text, i, SkipNonWs(text, i) - 1)

\* extract_content up to its call of fetch_web_content: the URL to fetch,
\* or the literal content.
extract_content(m) ==
    IF m.type = "text" THEN
        IF url_search(m.content) # <<>>
        THEN [fetch |-> TRUE, url |-> url_search(m.content), content |-> <<>>]
        ELSE [fetch |-> FALSE, url |-> <<>>, content |-> m.content]
    ELSE IF m.type = "link" THEN
        [fetch |-> TRUE, url |-> m.url, content |-> <<>>]
    ELSE [fetch |-> FALSE, url |-> <<>>, content |-> <<>>]

WEIXIN_HOST == Chars("mp.weixin.qq.com")

NoPage == [kind |-> "none", status |-> 0, lxml_raises |-> FALSE,
           js_content |-> <<>>, readability_raises |-> FALSE,
           summary |-> <<>>]

\* response.raise_for_status()
raise_for_status(resp) == resp.status >= 400 /\ resp.status < 600

\* The condition of line 147.
WeixinApplies(u) == Contains(u, WEIXIN_HOST)

\* fetch_web_content given what the network and the two HTML libraries
\* answer.  `strategy` records the branch that returned.
fetch_web_content(u, resp) ==
    IF resp.kind = "error" \/ raise_for_status(resp)
    THEN [raised |-> TRUE, exc |-> EXC_FETCH, value |-> <<>>, strategy |-> "none"]
    ELSE IF WeixinApplies(u) /\ resp.lxml_raises
    THEN [raised |-> TRUE, exc |-> EXC_FETCH, value |-> <<>>, strategy |-> "none"]
    ELSE IF WeixinApplies(u) /\ resp.js_content # <<>>
    THEN [raised |-> FALSE, exc |-> "",
          value |-> Truncate(strip(Join(<<"\n">>, resp.js_content))),
          strategy |-> "weixin"]
    ELSE IF resp.readability_raises
    THEN [raised |-> TRUE, exc |-> EXC_FETCH, value |-> <<>>, strategy |-> "none"]
    ELSE [raised |-> FALSE, exc |-> "", value |-> Truncate(resp.summary),
          strategy |-> "readability"]

(***************************************************************************)
(* analyze_content.                                                        *)
(***************************************************************************)

\* analyze_content given what the scoring API answers: any failure of the
\* POST, of the status check or of the lookup choices[0].message.content is
\* re-raised as one RuntimeError.
analyze_content(resp) ==
    IF resp.kind = "error" \/ raise_for_status(resp) \/ ~resp.well_formed
    THEN [raised |-> TRUE, exc |-> EXC_ANALYZE, value |-> <<>>]
    ELSE [raised |-> FALSE, exc |-> "", value |-> resp.content]

(***************************************************************************)
(* generate_reply, lines 214-233: validation of the parsed value and the   *)
(* construction of the card.                                               *)
(***************************************************************************)

\* str(n) for a natural number.
RECURSIVE NatChars(_)
NatChars(n) ==
    IF n < 10 THEN <<DigitChar(n)>>
    ELSE NatChars(n \div 10) \o <<DigitChar(n % 10)>>

\* str(n) for an integer.
IntChars(n) == IF n < 0 THEN <<"-">> \o NatChars(0 - n) ELSE NatChars(n)

\* `k in data` (line 215) where it does not raise TypeError: key of a dict,
\* element of a list, substring of a string.
In(k, d) ==
    CASE d.t = "dict" -> \E i \in 1..Len(d.v) : d.v[i].k = k
      [] d.t = "list" -> \E i \in 1..Len(d.v) : d.v[i] = JStr(k)
      [] d.t = "str"  -> Contains(d.v, k)

\* data[k] for a dict that holds k: the last member of that key.
Get(d, k) ==
    LET idx == {i \in 1..Len(d.v) : d.v[i].k = k}
        last == CHOOSE i \in idx : \A j \in idx : j <= i
    IN  d.v[last].v

\* int(x), line 221: [ok, val]; not ok stands for ValueError, TypeError or
\* OverflowError.
PyInt(x) ==
    CASE x.t = "int"   -> [ok |-> TRUE, val |-> x.v]
      [] x.t = "bool"  -> [ok |-> TRUE, val |-> IF x.v THEN 1 ELSE 0]
      [] x.t = "float" -> [ok |-> TRUE, val |-> x.v.int]
      [] x.t = "str"   ->
            LET body   == strip(x.v)
                signed == body # <<>> /\ body[1] \in {"-", "+"}
                digs   == IF signed THEN Tail(body) ELSE body
                n      == DigitsValue(digs, 1, Len(digs) + 1, 0)
            IN  IF digs # <<>> /\ \A i \in 1..Len(digs) : digs[i] \in Digits
                THEN [ok |-> TRUE,
                      val |-> IF signed /\ body[1] = "-" THEN 0 - n ELSE n]
                ELSE [ok |-> FALSE, val |-> 0]
      [] OTHER -> [ok |-> FALSE, val |-> 0]

\* The text an f-string puts for a value.  A container's repr is kept as one
\* opaque character.
PyStr(x) ==
    CASE x.t = "str"   -> x.v
      [] x.t = "int"   -> IntChars(x.v)
      [] x.t = "bool"  -> IF x.v THEN Chars("True") ELSE Chars("False")
      [] x.t = "null"  -> Chars("None")
      [] x.t = "float" -> IntChars(x.v.int) \o <<".">> \o x.v.frac
      [] x.t = "nonfinite" -> Chars(x.v)
      [] OTHER -> <<"<repr>">>

\* What '\n* '.join(x) iterates over (line 227): [ok, items]; not ok stands
\* for the TypeError of a value that cannot be iterated.
Iterate(x) ==
    CASE x.t = "list" -> [ok |-> TRUE, items |-> x.v]
      [] x.t = "str"  -> [ok |-> TRUE,
                          items |-> [i \in 1..Len(x.v) |-> JStr(<<x.v[i]>>)]]
      [] x.t = "dict" -> [ok |-> TRUE,
                          items |-> [i \in 1..Len(x.v) |-> JStr(x.v[i].k)]]
      [] OTHER -> [ok |-> FALSE, items |-> <<>>]

REQUIRED_FIELDS == {Chars("score"), Chars("analysis"), Chars("details")}

COLOR_HIGH == "00c853"

COLOR_MEDIUM == "ffd600"

COLOR_LOW == "d50000"

\* Faulty variant of ColorOf: the tiers start above 85 and above 65.
ColorOf_strict(score) ==
    IF score > 85 THEN COLOR_HIGH
    ELSE IF score > 65 THEN COLOR_MEDIUM
    ELSE COLOR_LOW

\* line 222
ColorOf(score) ==
    IF score >= 85 THEN COLOR_HIGH
    ELSE IF score >= 65 THEN COLOR_MEDIUM
    ELSE COLOR_LOW

\* line 226
Title(score) == Chars("credibility score: ") \o IntChars(score) \o Chars("/100")

\* line 227
Description(analysisValue, details) ==
    PyStr(analysisValue) \o Chars("\n\nkey points:\n* ")
        \o Join(Chars("\n* "), [i \in 1..Len(details) |-> details[i].v])

\* line 228
PicUrl(color, score) ==
    Chars("https://fakeimg.pl/600x400/") \o Chars(color)
        \o Chars("/fff/?text=") \o IntChars(score) \o Chars("pts")

Article(d, score) ==
    [title       |-> Title(score),
     description |-> Description(Get(d, Chars("analysis")),
                                 Iterate(Get(d, Chars("details"))).items),
     picurl      |-> PicUrl(ColorOf(score), score)]

\* Faulty variant of Validates: the isinstance check of line 217 is missing.
Validates_skips_list_check(d) ==
    /\ d.t \in {"dict", "list", "str"}
    /\ \A k \in REQUIRED_FIELDS : In(k, d)
    /\ d.t = "dict"

\* Lines 215-218: the two checks that raise ValueError, and the TypeError
\* that `k in data` or data['details'] raises for a value that is no dict.
Validates(d) ==
    /\ d.t \in {"dict", "list", "str"}
    /\ \A k \in REQUIRED_FIELDS : In(k, d)
    /\ d.t = "dict"
    /\ Get(d, Chars("details")).t = "list"

\* Lines 214-233 with the handler of line 238: the reply for the parsed
\* value d, and the stage that failed.  renderOk: whether the rendering of
\* the card (an external call inside the try block) succeeds.
build_reply(d, renderOk) ==
    IF ~Validates(d)
    THEN [reply |-> TextReply(MSG_REPLY_ERROR), failed |-> "validate"]
    ELSE IF ~PyInt(Get(d, Chars("score"))).ok
    THEN [reply |-> TextReply(MSG_REPLY_ERROR), failed |-> "validate"]
    ELSE IF \/ ~Iterate(Get(d, Chars("details"))).ok
            \/ \E i \in 1..Len(Iterate(Get(d, Chars("details"))).items) :
                   Iterate(Get(d, Chars("details"))).items[i].t # "str"
    THEN [reply |-> TextReply(MSG_REPLY_ERROR), failed |-> "build"]
    ELSE IF ~renderOk
    THEN [reply |-> TextReply(MSG_REPLY_ERROR), failed |-> "render"]
    ELSE [reply  |-> NewsReply(Article(d, PyInt(Get(d, Chars("score"))).val)),
          failed |-> "none"]

\* The reply of the handler of line 235, which has the cleaned text at hand.
json_error_reply(cleaned) == TextReply(MSG_FORMAT_ERROR)

\* generate_reply: clean-up, strict parse, validation, card.
generate_reply(raw, renderOk) ==
    LET cleaned == clean(raw)
        parsed  == json_loads(cleaned)
    IN  IF ~parsed.ok
        THEN [reply  |-> json_error_reply(cleaned), failed |-> "json",
              data   |-> parsed]
        ELSE [reply  |-> build_reply(parsed.val, renderOk).reply,
              failed |-> build_reply(parsed.val, renderOk).failed,
              data   |-> parsed]

(***************************************************************************)
(* Inputs: callbacks, fetched pages, answers of the scoring API.           *)
(***************************************************************************)

\* Length of the longest literal text message.
MaxTextLen == 60

\* Scores of the parsed records run from -NegScores to MaxScoreSample.
NegScores == 2

MaxScoreSample == 102

Phrase ==
    Chars("is this story about the new bridge true or only a rumour, please check it")

Take(s, n) == SubSeq(s, 1, Min(Len(s), n))

NoMsg == [type |-> "none", content |-> <<>>, url |-> <<>>]

TextMsg(text) == [type |-> "text", content |-> text, url |-> <<>>]

LinkMsg(u) == [type |-> "link", content |-> <<>>, url |-> u]

OtherMsg(type) == [type |-> type, content |-> <<>>, url |-> <<>>]

\* Lengths of the literal text messages: empty, short, and either side of
\* fifty characters.
TextLengths == {0, 1, 20, 49, 50, MaxTextLen}

PlainTexts == {Take(Phrase, n) : n \in TextLengths}

UrlTexts ==
    {Chars("look https://example.com/a now"),
     Chars("see\nhttp://mp.weixin.qq.com/s/x1"),
     Chars("http:// is not a link")}

LinkUrls ==
    {Chars("https://mp.weixin.qq.com/s/x1"),
     Chars("https://example.com/a"),
     Chars("https://example.com/r?from=mp.weixin.qq.com")}

Messages ==
    {TextMsg(t) : t \in PlainTexts \cup UrlTexts}
        \cup {LinkMsg(u) : u \in LinkUrls}
        \cup {OtherMsg(t) : t \in {"image", "voice", "event"}}

NoRequest == [method |-> "none", parsable |-> FALSE, sig_ok |-> FALSE,
              msg |-> NoMsg]

PostRequests ==
    {[method |-> "POST", parsable |-> TRUE, sig_ok |-> FALSE, msg |-> m] :
        m \in Messages}
    \cup {[method |-> "POST", parsable |-> FALSE, sig_ok |-> FALSE,
           msg |-> NoMsg]}

GetRequests ==
    {[method |-> "GET", parsable |-> FALSE, sig_ok |-> b, msg |-> NoMsg] :
        b \in BOOLEAN}

\* Text nodes under div#js_content, as the XPath of line 149 lists them.
JsContents ==
    { <<>>,
      <<Chars("\n  "), Chars(" ")>>,
      <<Chars("\nHeadline "), Chars("\n"), Chars("Body of the article.\n")>> }

\* Results of Document(...).summary().
Summaries ==
    { Chars("<html><body><div><p>short</p></div></body></html>"),
      Chars("<html><body><div><p>A long enough article body, well over fifty characters.</p></div></body></html>") }

FetchResponses ==
    {[kind |-> "error", status |-> 0, lxml_raises |-> FALSE,
      js_content |-> <<>>, readability_raises |-> FALSE, summary |-> <<>>]}
    \cup {[kind |-> "response", status |-> st, lxml_raises |-> FALSE,
           js_content |-> <<>>, readability_raises |-> FALSE,
           summary |-> <<>>] : st \in {404, 503}}
    \cup {[kind |-> "response", status |-> 200, lxml_raises |-> FALSE,
           js_content |-> js, readability_raises |-> rd, summary |-> sm] :
             js \in JsContents, rd \in BOOLEAN, sm \in Summaries}
    \cup {[kind |-> "response", status |-> 200, lxml_raises |-> TRUE,
           js_content |-> <<>>, readability_raises |-> FALSE, summary |-> sm] :
             sm \in Summaries}

\* s between two quote characters q.
Q(q, s) == <<q>> \o Chars(s) \o <<q>>

\* A JSON-like object: members is a sequence of [k, v] with k a string and
\* v the text of the value; q the quote of the keys, sp the text after each
\* colon and comma, tc a trailing comma before the closing brace.
ObjectText(q, sp, tc, members) ==
    <<"{">>
        \o Join(<<",">> \o sp,
                [i \in 1..Len(members) |->
                    Q(q, members[i].k) \o <<":">> \o sp \o members[i].v])
        \o (IF tc THEN <<",">> ELSE <<>>)
        \o <<"}">>

Fenced(t) == Fence \o Chars("json\n") \o t \o <<"\n">> \o Fence

DetailsList(q) == <<"[">> \o Q(q, "a") \o <<",">> \o Q(q, "b") \o <<"]">>

\* The three-field object the system prompt of line 176 asks for.
Full(q, sp, tc, scoreText, detailsText) ==
    ObjectText(q, sp, tc,
        << [k |-> "score",    v |-> scoreText],
           [k |-> "analysis", v |-> Q(q, "looks credible")],
           [k |-> "details",  v |-> detailsText] >>)

ResponseScores == {0, 72, 91}

\* Answers that hold no quote character.
QuoteFreeResponses ==
    {Chars("{}"), Chars("[]"), Chars("72"), Chars("null"), Chars(" {  } "),
     Chars("[1,2,]"), Fenced(Chars("{}")), Chars("sorry, I cannot rate this"),
     Fence \o Chars("\n{}\n") \o Fence, <<>>}

\* details as the list the prompt asks for, or as one string.
DetailsText(q, shape) == IF shape = "list" THEN DetailsList(q) ELSE Q(q, "a")

\* The text after colons and commas: none in the double-quoted answers, a
\* space in the single-quoted ones.
SpaceOf(q) == IF q = DQ THEN <<>> ELSE <<" ">>

RawResponses ==
    QuoteFreeResponses
    \cup UNION {
        {Full(q, SpaceOf(q), tc, IntChars(n), DetailsText(q, shape)),
         Fenced(Full(q, SpaceOf(q), tc, IntChars(n), DetailsText(q, shape)))} :
            q \in {DQ, SQ}, tc \in BOOLEAN,
            n \in ResponseScores, shape \in {"list", "scalar"} }

AnalyzeResponses ==
    {[kind |-> "error", status |-> 0, well_formed |-> FALSE, content |-> <<>>]}
    \cup {[kind |-> "response", status |-> st, well_formed |-> FALSE,
           content |-> <<>>] : st \in {401, 500, 200}}
    \cup {[kind |-> "response", status |-> 200, well_formed |-> TRUE,
           content |-> r] : r \in RawResponses}

\* Strict JSON texts whose parse gives the values the validation is applied
\* to: objects with each of the three fields absent or of several types, and
\* values that are no object.
ScoreTexts ==
    {<<>>}
    \cup {IntChars(n) : n \in (0 - NegScores)..MaxScoreSample}
    \cup {Q(DQ, "72"), Q(DQ, " +90 "), Q(DQ, "high"), Chars("null"),
          Chars("7.5"), Chars("true"), Chars("[85]")}

AnalysisTexts == {<<>>, Q(DQ, "looks credible"), Q(DQ, "")}

DetailsTexts ==
    {<<>>, DetailsList(DQ), Chars("[]"), Q(DQ, "a"), Chars("[1]"), Chars("5")}

\* The members whose value text is not empty.
Present(members) == SelectSeq(members, LAMBDA m : m.v # <<>>)

StrictTexts ==
    {ObjectText(DQ, <<>>, FALSE,
        Present(<< [k |-> "score",    v |-> sc],
                   [k |-> "analysis", v |-> an],
                   [k |-> "details",  v |-> de] >>)) :
        sc \in ScoreTexts, an \in AnalysisTexts, de \in DetailsTexts}
    \cup {Chars("[\"score\",\"analysis\",\"details\"]"),
          Chars("\"score analysis details\""),
          Chars("72"), Chars("null"), Chars("[]"), Chars("NaN"),
          Chars("{\"score\":1,\"analysis\":\"x\",\"details\":[],\"score\":0}")}

(***************************************************************************)
(* The handler.                                                            *)
(***************************************************************************)

\* verify_wechat, lines 73-79.
verify_wechat(req) ==
    IF req.sig_ok
    THEN [kind |-> "echo", text |-> "echostr", articles |-> <<>>]
    ELSE [kind |-> "forbidden", text |-> "verification failed", articles |-> <<>>]

\* Faulty variant of supported: image messages pass the type check.
supported_wide(type) == type \in {"text", "link", "image"}

\* line 94
supported(type) == type \in {"text", "link"}

\* line 96: `not content`
no_content(c) == c = <<>>

\* Faulty variant of process_message_except: the reply carries str(e).
process_message_except_leaks(out) ==
    IF out.raised THEN Returned(TextReply(out.exc)) ELSE out

\* Lines 112-114: whatever the body of process_message raised is replaced by
\* the fixed reply; `out` is what the body came to.
process_message_except(out) ==
    IF out.raised THEN Returned(TextReply(MSG_PROCESS_ERROR)) ELSE out

\* Lines 52-56: whatever process_message raised is replaced by the fixed
\* reply.
handle_wechat(out) ==
    IF out.raised THEN Returned(TextReply(MSG_SERVER_ERROR)) ELSE out

\* The request ends: the body of process_message returned or raised `out`
\* at `stage`.
Respond(out, stage) ==
    LET r == handle_wechat(process_message_except(out))
    IN  /\ reply' = r.value
        /\ escaped' = r.raised
        /\ failed' = stage
        /\ pc' = "done"

Init ==
    /\ pc = "idle"
    /\ request = NoRequest
    /\ msg = NoMsg
    /\ url = <<>>
    /\ page = NoPage
    /\ strategy = "none"
    /\ content = <<>>
    /\ analysis = <<>>
    /\ data = ParseFail
    /\ reply = NoReply
    /\ failed = "none"
    /\ fetchCalls = 0
    /\ analyzeCalls = 0
    /\ escaped = FALSE

\* handle_wechat, GET: lines 49-50.
ReceiveGet(req) ==
    /\ pc = "idle"
    /\ request' = req
    /\ reply' = verify_wechat(req)
    /\ pc' = "done"
    /\ UNCHANGED <<msg, url, page, strategy, content, analysis, data, failed,
                   fetchCalls, analyzeCalls, escaped>>

\* handle_wechat, POST: line 53 enters process_message.
ReceivePost(req) ==
    /\ pc = "idle"
    /\ request' = req
    /\ pc' = "parse"
    /\ UNCHANGED <<msg, url, page, strategy, content, analysis, data, reply,
                   failed, fetchCalls, analyzeCalls, escaped>>

\* process_message, lines 86-99: decode and parse the envelope, dispatch on
\* the message type.
ParseMessage ==
    /\ pc = "parse"
    /\ IF ~request.parsable
       THEN /\ Respond(Raised("envelope cannot be parsed"), "parse")
            /\ UNCHANGED msg
       ELSE IF ~supported(request.msg.type)
       THEN /\ msg' = request.msg
            /\ Respond(Returned(TextReply(MSG_UNSUPPORTED)), "unsupported")
       ELSE /\ msg' = request.msg
            /\ pc' = "extract"
            /\ UNCHANGED <<reply, failed, escaped>>
    /\ UNCHANGED <<request, url, page, strategy, content, analysis, data,
                   fetchCalls, analyzeCalls>>

\* extract_content, lines 118-131, up to a call of fetch_web_content; when
\* the content is the literal text, the check of line 96 follows.
ExtractContent ==
    /\ pc = "extract"
    /\ LET e == extract_content(msg)
       IN  IF e.fetch
           THEN /\ url' = e.url
                /\ pc' = "fetch"
                /\ UNCHANGED <<content, reply, failed, escaped>>
           ELSE /\ content' = e.content
                /\ UNCHANGED url
                /\ IF no_content(e.content)
                   THEN Respond(Returned(TextReply(MSG_NO_CONTENT)), "no_content")
                   ELSE /\ pc' = "analyze"
                        /\ UNCHANGED <<reply, failed, escaped>>
    /\ UNCHANGED <<request, msg, page, strategy, analysis, data, fetchCalls,
                   analyzeCalls>>

\* fetch_web_content, lines 141-163, with the answer resp; then the check of
\* line 96.  Its RuntimeError passes through extract_content to line 112.
FetchWebContent(resp) ==
    /\ pc = "fetch"
    /\ fetchCalls' = fetchCalls + 1
    /\ page' = resp
    /\ LET r == fetch_web_content(url, resp)
       IN  IF r.raised
           THEN /\ Respond(Raised(r.exc), "fetch")
                /\ UNCHANGED <<content, strategy>>
           ELSE /\ content' = r.value
                /\ strategy' = r.strategy
                /\ IF no_content(r.value)
                   THEN Respond(Returned(TextReply(MSG_NO_CONTENT)), "no_content")
                   ELSE /\ pc' = "analyze"
                        /\ UNCHANGED <<reply, failed, escaped>>
    /\ UNCHANGED <<request, msg, url, analysis, data, analyzeCalls>>

\* analyze_content(content[:3000]), lines 102-107, with the answer resp.
AnalyzeContent(resp) ==
    /\ pc = "analyze"
    /\ analyzeCalls' = analyzeCalls + 1
    /\ LET r == analyze_content(resp)
       IN  IF r.raised
           THEN /\ Respond(Returned(TextReply(MSG_ANALYZE_UNAVAILABLE)), "analyze")
                /\ UNCHANGED analysis
           ELSE /\ analysis' = r.value
                /\ pc' = "reply"
                /\ UNCHANGED <<reply, failed, escaped>>
    /\ UNCHANGED <<request, msg, url, page, strategy, content, data, fetchCalls>>

\* generate_reply(analysis), line 110.
GenerateReply(renderOk) ==
    /\ pc = "reply"
    /\ LET g == generate_reply(analysis, renderOk)
       IN  /\ data' = g.data
           /\ Respond(Returned(g.reply), g.failed)
    /\ UNCHANGED <<request, msg, url, page, strategy, content, analysis,
                   fetchCalls, analyzeCalls>>

\* The reply goes back to the platform; the handler keeps nothing.
Return ==
    /\ pc = "done"
    /\ pc' = "idle"
    /\ request' = NoRequest
    /\ msg' = NoMsg
    /\ url' = <<>>
    /\ page' = NoPage
    /\ strategy' = "none"
    /\ content' = <<>>
    /\ analysis' = <<>>
    /\ data' = ParseFail
    /\ reply' = NoReply
    /\ failed' = "none"
    /\ fetchCalls' = 0
    /\ analyzeCalls' = 0
    /\ escaped' = FALSE

Next ==
    \/ \E req \in GetRequests : ReceiveGet(req)
    \/ \E req \in PostRequests : ReceivePost(req)
    \/ ParseMessage
    \/ ExtractContent
    \/ \E resp \in FetchResponses : FetchWebContent(resp)
    \/ \E resp \in AnalyzeResponses : AnalyzeContent(resp)
    \/ \E renderOk \in BOOLEAN : GenerateReply(renderOk)
    \/ Return

Spec == Init /\ [][Next]_vars

(***************************************************************************)
(* The validation and card construction of generate_reply on its own:      *)
(* `data` is drawn from what json.loads returns for strict JSON texts.     *)
(***************************************************************************)

ParsedValues == {json_loads(t) : t \in StrictTexts}

InitBuild ==
    /\ pc = "parsed"
    /\ data \in {p \in ParsedValues : p.ok}
    /\ request = NoRequest
    /\ msg = NoMsg
    /\ url = <<>>
    /\ page = NoPage
    /\ strategy = "none"
    /\ content = <<>>
    /\ analysis = <<>>
    /\ reply = NoReply
    /\ failed = "none"
    /\ fetchCalls = 0
    /\ analyzeCalls = 0
    /\ escaped = FALSE

\* Lines 214-233 and 238-240 applied to data.
ValidateAndBuild(renderOk) ==
    /\ pc = "parsed"
    /\ LET b == build_reply(data.val, renderOk)
       IN  Respond(Returned(b.reply), b.failed)
    /\ UNCHANGED <<request, msg, url, page, strategy, content, analysis, data,
                   fetchCalls, analyzeCalls>>

NextBuild == \E renderOk \in BOOLEAN : ValidateAndBuild(renderOk)

SpecBuild == InitBuild /\ [][NextBuild]_vars

(***************************************************************************)
(* The claims.                                                             *)
(***************************************************************************)

\* The fixed texts of the error replies.
ERROR_REPLIES ==
    {MSG_SERVER_ERROR, MSG_NO_CONTENT, MSG_UNSUPPORTED,
     MSG_ANALYZE_UNAVAILABLE, MSG_PROCESS_ERROR, MSG_FORMAT_ERROR,
     MSG_REPLY_ERROR}

\* The request is over and was a POST callback.
PostDone == pc = "done" /\ request.method = "POST"

\* d is an object holding score, analysis and details, details being a list.
WellFormed(d) ==
    /\ d.t = "dict"
    /\ \A k \in REQUIRED_FIELDS : \E i \in 1..Len(d.v) : d.v[i].k = k
    /\ Get(d, Chars("details")).t = "list"

\* d encodes an Assessment: well-formed, an integer score in 1..100, every
\* bullet a text.
IsAssessment(d) ==
    /\ WellFormed(d)
    /\ Get(d, Chars("score")).t = "int"
    /\ Get(d, Chars("score")).v \in 1..100
    /\ \A i \in 1..Len(Get(d, Chars("details")).v) :
           Get(d, Chars("details")).v[i].t = "str"

\* The record {score: n, analysis: "looks credible", details: ["a", "b"]}.
Assessment(n) ==
    JDict(<< [k |-> Chars("score"),    v |-> JInt(n)],
             [k |-> Chars("analysis"), v |-> JStr(Chars("looks credible"))],
             [k |-> Chars("details"),
              v |-> JList(<<JStr(<<"a">>), JStr(<<"b">>)>>)] >>)

\* C1: every POST callback ends with a reply and no exception leaves
\* handle_wechat; when a stage failed, the reply is a text out of the fixed
\* set of error strings.
C1_FixedErrorReply ==
    PostDone =>
        /\ ~escaped
        /\ reply.kind \in {"text", "news"}
        /\ failed # "none" =>
               reply.kind = "text" /\ reply.text \in ERROR_REPLIES

\* C1's case: the fetch of a link failed and the request was answered.
C1_Witness ==
    /\ PostDone
    /\ failed = "fetch"
    /\ page.kind = "error"
    /\ reply = TextReply(MSG_PROCESS_ERROR)

\* C2: extracted content shorter than fifty characters ends the request with
\* the no-usable-content reply, and analyze_content is not invoked.
C2_ShortContentRejected ==
    (/\ PostDone
     /\ msg.type \in {"text", "link"}
     /\ failed # "fetch"
     /\ Len(content) < 50)
        => reply = TextReply(MSG_NO_CONTENT) /\ analyzeCalls = 0

\* C3: an answer that already is strict JSON for an Assessment parses, after
\* the clean-up, to the record its own text parses to, and the card of that
\* record is the reply.
C3_StrictJsonSurvives ==
    (/\ PostDone
     /\ Len(content) >= 50
     /\ analyzeCalls = 1
     /\ failed # "analyze"
     /\ json_loads(analysis).ok
     /\ IsAssessment(json_loads(analysis).val))
        => /\ data.ok
           /\ data.val = json_loads(analysis).val
           /\ \/ failed = "render"
              \/ reply = NewsReply(Article(json_loads(analysis).val,
                             Get(json_loads(analysis).val, Chars("score")).v))

\* C4: a fenced, single-quoted answer with a trailing comma is repaired into
\* the Assessment it encodes, and the card is the reply.
C4_FencedSingleQuotedRepaired ==
    \A n \in ResponseScores \cap 1..100 :
        (/\ PostDone
         /\ Len(content) >= 50
         /\ analysis = Fenced(Full(SQ, <<" ">>, TRUE, IntChars(n), DetailsList(SQ))))
            => /\ data.ok
               /\ data.val = Assessment(n)
               /\ failed \in {"none", "render"}
               /\ failed = "none" => reply = NewsReply(Article(Assessment(n), n))

C6_FetchFailureIsContentUnavailable ==
    (PostDone /\ failed = "fetch")
        => reply = TextReply(MSG_NO_CONTENT) /\ analyzeCalls = 0

\* C7: the colour of a card is that of the tier of its integer score: 85 and
\* above high, 65 to 84 medium, below 65 low.
C7_ColorByScore ==
    (pc = "done" /\ reply.kind = "news") =>
        LET n == PyInt(Get(data.val, Chars("score"))).val
        IN  /\ PyInt(Get(data.val, Chars("score"))).ok
            /\ reply.articles[1].title = Title(n)
            /\ n >= 85 => reply.articles[1].picurl = PicUrl("00c853", n)
            /\ (n >= 65 /\ n < 85) => reply.articles[1].picurl = PicUrl("ffd600", n)
            /\ n < 65 => reply.articles[1].picurl = PicUrl("d50000", n)

\* C7's case: the boundary score 85 on a card of the high tier.
C7_Witness ==
    /\ pc = "done"
    /\ reply.kind = "news"
    /\ Get(data.val, Chars("score")) = JInt(85)
    /\ reply.articles[1].picurl = PicUrl("00c853", 85)

\* C8: a parsed value that lacks one of the three fields, or whose details is
\* no list, gets the error reply and no card.
C8_CardOnlyIfWellFormed ==
    (pc = "done" /\ data.ok /\ ~WellFormed(data.val))
        => reply = TextReply(MSG_REPLY_ERROR)

\* C8's case: all three fields present, details a single string.
C8_Witness ==
    /\ pc = "done"
    /\ data.ok
    /\ data.val.t = "dict"
    /\ \A k \in REQUIRED_FIELDS : In(k, data.val)
    /\ Get(data.val, Chars("details")) = JStr(<<"a">>)
    /\ Get(data.val, Chars("score")) = JInt(72)
    /\ reply = TextReply(MSG_REPLY_ERROR)

\* C9: a message that is neither text nor link is answered at once with the
\* unsupported-type reply; nothing is fetched and nothing is analysed.
C9_UnsupportedImmediately ==
    msg.type \notin {"none", "text", "link"} =>
        /\ pc = "done"
        /\ reply = TextReply(MSG_UNSUPPORTED)
        /\ fetchCalls = 0
        /\ analyzeCalls = 0

\* C9's case: an image message was answered.
C9_Witness ==
    /\ PostDone
    /\ msg.type = "image"
    /\ failed = "unsupported"
    /\ reply = TextReply(MSG_UNSUPPORTED)

\* The host of a URL: what lies between "://" and the next "/", "?" or "#".
HostEnd(u, i) == FirstIn(u, i, {"/", "?", "#"})

UrlHost(u) ==
    LET starts == {i \in 1..Len(u) : MatchAt(u, i, Chars("://"))}
        i      == CHOOSE k \in starts : \A m \in starts : k <= m
    IN  IF starts = {} THEN <<>> ELSE SubSeq(u, i + 3, HostEnd(u, i + 3) - 1)

\* C10: when the host is not the platform's, or the page has no js_content
\* text nodes, a fetch that succeeds returned the readability result; and the
\* platform branch never returns an empty text.
C10_NoEmptyDomainMatch ==
    (fetchCalls = 1 /\ strategy # "none") =>
        /\ (UrlHost(url) # WEIXIN_HOST \/ page.js_content = <<>>)
               => strategy = "readability"
        /\ strategy = "weixin" => content # <<>>

====
